---------------------------- MODULE Spec2Model ----------------------------
(*************************************************************************)
(* A model of src/index.ts, the typed client of the Turso platform API.  *)
(*                                                                       *)
(* JavaScript objects are functions from string keys to values; a key    *)
(* that is not in the DOMAIN reads as undefined.  An object spread       *)
(* {...a, ...b} is  b @@ a  (the later keys win).  A template literal is *)
(* the sequence of its path segments.  Every async method is two steps:  *)
(* the part before `await TursoClient.request(...)`, which builds the    *)
(* request and hands it to fetch, and the part after it, which reshapes  *)
(* the parsed body.  TursoClient.request itself suspends twice, on fetch *)
(* and on response.json().                                               *)
(*************************************************************************)
EXTENDS Integers, Sequences, FiniteSets, Bags, TLC

VARIABLES
    config,   \* the argument of createClient(config)
    server,   \* what the remote API holds, i.e. what a 2xx body will carry
    calls     \* the bag of invocations (async frames) of public methods

vars == <<config, server, calls>>

-----------------------------------------------------------------------------
(* Bounds of the model.                                                    *)

MaxEntries == 2       \* entries of a list envelope
MaxTime == 2          \* the clock, in seconds since the epoch
NumConcurrent == 2    \* invocations in flight together under SpecConcurrent

-----------------------------------------------------------------------------
(* JavaScript values.                                                      *)

EmptyObject == [k \in {} |-> ""]
Has(o, k) == k \in DOMAIN o
\* a falsy string is the empty one; an absent key is undefined, falsy too
Truthy(o, k) == Has(o, k) /\ o[k] # ""
\* `${o.k}` in a template literal
Template(o, k) == IF Has(o, k) THEN o[k] ELSE "undefined"

Undefined == [type |-> "undefined"]
Null == [type |-> "null"]
Array(items) == [type |-> "array", items |-> items]
Object(fields) == [type |-> "object", fields |-> fields]

-----------------------------------------------------------------------------
(* Configuration.                                                          *)

DefaultBaseUrl == [origin |-> "https://api.turso.tech", path |-> <<"v1">>, slash |-> FALSE]
OtherBaseUrl == [origin |-> "https://turso.example", path |-> <<"api">>, slash |-> TRUE]

Tokens == {"t", "u"}
Names == {"mydb"}

\* what a caller passes to createClient: token is required, org and baseUrl optional
TursoConfig ==
    { b @@ o @@ [token |-> "t"] :
        o \in {EmptyObject, "org" :> "acme"},
        b \in {EmptyObject, "baseUrl" :> OtherBaseUrl} }

\* constructor: this.config = { baseUrl: "https://api.turso.tech/v1", ...config }
TursoClient_constructor(cfg) == cfg @@ ("baseUrl" :> DefaultBaseUrl)


-----------------------------------------------------------------------------
(* URL, URLSearchParams, Date.                                             *)

\* a relative reference with no "?" in it
Path(segments) == [path |-> segments, hasQuery |-> FALSE, params |-> <<>>]
\* `${url}?${queryParams}`
WithQuery(segments, queryParams) == [path |-> segments, hasQuery |-> TRUE, params |-> queryParams]

\* URLSearchParams.set(name, value): replaces the value of name, or appends the pair
URLSearchParams_set(p, name, value) ==
    IF \E i \in 1..Len(p) : p[i][1] = name
    THEN [i \in 1..Len(p) |-> IF p[i][1] = name THEN <<name, value>> ELSE p[i]]
    ELSE Append(p, <<name, value>>)

ParamNames(p) == {p[i][1] : i \in 1..Len(p)}
ParamValue(p, name) == p[CHOOSE i \in 1..Len(p) : p[i][1] = name][2]

\* new URL(url, base) for a relative reference with no leading "/": the reference
\* replaces everything after the last "/" of the base's path
URL(url, base) ==
    [origin |-> base.origin,
     path |-> (IF base.slash THEN base.path ELSE SubSeq(base.path, 1, Len(base.path) - 1))
              \o url.path,
     hasQuery |-> url.hasQuery,
     params |-> url.params]

\* a Date is a whole number of days since the epoch; Date.prototype.toISOString
ISOStrings == <<"1970-01-01T00:00:00.000Z", "1970-01-02T00:00:00.000Z", "1970-01-03T00:00:00.000Z">>
Date(day) == [type |-> "Date", day |-> day]
toISOString(date) == ISOStrings[date.day + 1]

-----------------------------------------------------------------------------
(* ApiTokenClient: the part of each method before its await.               *)

ApiTokenClient_list_request(cfg, a) ==
    [url |-> Path(<<"auth", "api-tokens">>), options |-> EmptyObject]

ApiTokenClient_create_request(cfg, a) ==
    [url |-> Path(<<"auth", "api-tokens", a.name>>),
     options |-> [method |-> "POST",
                  headers |-> "content-type" :> <<"application/json">>]]

ApiTokenClient_revoke_request(cfg, a) ==
    [url |-> Path(<<"auth", "api-tokens", a.name>>),
     options |-> [method |-> "DELETE"]]

ApiTokenClient_validate_request(cfg, a) ==
    [url |-> Path(<<"auth", "api-tokens", "validate">>),
     options |-> [headers |-> "Authorization" :> <<"Bearer ", a.token>>]]

(* OrganizationClient *)

OrganizationClient_list_request(cfg, a) ==
    [url |-> Path(<<"organizations">>), options |-> EmptyObject]

OrganizationClient_members_request(cfg, a) ==
    [url |-> Path(<<"organisations", Template(cfg, "org"), "members">>),
     options |-> EmptyObject]

(* LocationClient *)

LocationClient_list_request(cfg, a) ==
    [url |-> Path(<<"locations">>), options |-> EmptyObject]

(* GroupClient *)

GroupClient_list_request(cfg, a) ==
    [url |-> Path(IF Truthy(cfg, "org")
                  THEN <<"organizations", cfg.org, "groups">>
                  ELSE <<"groups">>),
     options |-> EmptyObject]

GroupClient_get_request(cfg, a) ==
    [url |-> Path(IF Truthy(cfg, "org")
                  THEN <<"organizations", cfg.org, "groups", a.name>>
                  ELSE <<"groups", a.name>>),
     options |-> EmptyObject]

GroupClient_create_request(cfg, a) ==
    [url |-> Path(IF Truthy(cfg, "org")
                  THEN <<"organizations", cfg.org, "groups">>
                  ELSE <<"groups">>),
     options |-> [method |-> "POST",
                  headers |-> "content-type" :> <<"application/json">>,
                  body |-> [json |-> a.data]]]

GroupClient_delete_request(cfg, a) ==
    [url |-> Path(IF Truthy(cfg, "org")
                  THEN <<"organizations", cfg.org, "groups", a.name>>
                  ELSE <<"groups", a.name>>),
     options |-> [method |-> "DELETE"]]

GroupClient_addLocation_request(cfg, a) ==
    [url |-> Path(IF Truthy(cfg, "org")
                  THEN <<"organizations", cfg.org, "groups", a.groupName, "locations", a.location>>
                  ELSE <<"groups", a.groupName, "locations", a.location>>),
     options |-> [method |-> "POST"]]

GroupClient_removeLocation_request(cfg, a) ==
    [url |-> Path(IF Truthy(cfg, "org")
                  THEN <<"organizations", cfg.org, "groups", a.groupName, "locations", a.location>>
                  ELSE <<"groups", a.groupName, "locations", a.location>>),
     options |-> [method |-> "DELETE"]]

(* DatabaseClient *)

DatabaseClient_list_request(cfg, a) ==
    [url |-> Path(IF Truthy(cfg, "org")
                  THEN <<"organizations", cfg.org, "databases">>
                  ELSE <<"databases">>),
     options |-> EmptyObject]

DatabaseClient_get_request(cfg, a) ==
    [url |-> Path(IF Truthy(cfg, "org")
                  THEN <<"organizations", cfg.org, "databases", a.name>>
                  ELSE <<"databases", a.name>>),
     options |-> EmptyObject]

\* body: JSON.stringify({ name, ...options }); spreading an undefined options adds nothing
DatabaseClient_create_request(cfg, a) ==
    [url |-> Path(IF Truthy(cfg, "org")
                  THEN <<"organizations", cfg.org, "databases", a.name>>
                  ELSE <<"databases", a.name>>),
     options |-> [method |-> "POST",
                  headers |-> "content-type" :> <<"application/json">>,
                  body |-> [json |-> (IF Has(a, "options") THEN a.options ELSE EmptyObject)
                                     @@ [name |-> a.name]]]]

DatabaseClient_update_request(cfg, a) ==
    [url |-> Path(IF Truthy(cfg, "org")
                  THEN <<"organizations", cfg.org, "databases", a.name, "update">>
                  ELSE <<"databases", a.name>>),
     options |-> [method |-> "POST"]]

DatabaseClient_delete_request(cfg, a) ==
    [url |-> Path(IF Truthy(cfg, "org")
                  THEN <<"organizations", cfg.org, "databases", a.name>>
                  ELSE <<"databases", a.name>>),
     options |-> [method |-> "DELETE"]]

\* as createToken's query, with expiration set unconditionally
DatabaseClient_createToken_queryParams_always(a) ==
    LET p0 == <<>>
        p1 == URLSearchParams_set(p0, "expiration",
                  IF Has(a, "options") THEN Template(a.options, "expiration") ELSE "undefined")
    IN  IF Has(a, "options") /\ Truthy(a.options, "authorization")
        THEN URLSearchParams_set(p1, "authorization", a.options.authorization)
        ELSE p1

\* options?.k is undefined when options is; a set parameter needs a truthy value
DatabaseClient_createToken_queryParams(a) ==
    LET p0 == <<>>
        p1 == IF Has(a, "options") /\ Truthy(a.options, "expiration")
              THEN URLSearchParams_set(p0, "expiration", a.options.expiration)
              ELSE p0
    IN  IF Has(a, "options") /\ Truthy(a.options, "authorization")
        THEN URLSearchParams_set(p1, "authorization", a.options.authorization)
        ELSE p1

DatabaseClient_createToken_request(cfg, a) ==
    [url |-> WithQuery(IF Truthy(cfg, "org")
                       THEN <<"organizations", cfg.org, "databases", a.dbName, "auth", "tokens">>
                       ELSE <<"databases", a.dbName, "auth", "tokens">>,
                       DatabaseClient_createToken_queryParams(a)),
     options |-> [method |-> "POST"]]

DatabaseClient_rotateTokens_request(cfg, a) ==
    [url |-> Path(IF Truthy(cfg, "org")
                  THEN <<"organizations", cfg.org, "databases", a.dbName, "auth", "rotate">>
                  ELSE <<"databases", a.dbName, "auth", "rotate">>),
     options |-> [method |-> "POST"]]

\* date instanceof Date ? date.toISOString() : date
formatDateParameter(date) == IF date.type = "Date" THEN toISOString(date) ELSE date.s

\* a Date is an object, truthy; a string is truthy unless empty
TruthyDate(o, k) == Has(o, k) /\ (o[k].type = "Date" \/ o[k].s # "")

DatabaseClient_usage_queryParams(a) ==
    LET p0 == <<>>
        p1 == IF Has(a, "options") /\ TruthyDate(a.options, "from")
              THEN URLSearchParams_set(p0, "from", formatDateParameter(a.options.from))
              ELSE p0
    IN  IF Has(a, "options") /\ TruthyDate(a.options, "to")
        THEN URLSearchParams_set(p1, "to", formatDateParameter(a.options.to))
        ELSE p1

DatabaseClient_usage_request(cfg, a) ==
    [url |-> WithQuery(IF Truthy(cfg, "org")
                       THEN <<"organizations", cfg.org, "databases", a.dbName, "usage">>
                       ELSE <<"databases", a.dbName, "usage">>,
                       DatabaseClient_usage_queryParams(a)),
     options |-> EmptyObject]

-----------------------------------------------------------------------------
(* TursoClient.request, up to its first await: the call of fetch.          *)

\* { ...options, headers: { ...options.headers, Authorization, "User-Agent" } }
\* (spreading an undefined options.headers adds nothing)
RequestInit(cfg, options) ==
    ("headers" :> ([Authorization |-> <<"Bearer ", cfg.token>>]
                   @@ ("User-Agent" :> <<"JS SDK">>)
                   @@ (IF Has(options, "headers") THEN options.headers ELSE EmptyObject)))
    @@ options

TursoClient_request(url, cfg, options) ==
    [url |-> URL(url, cfg.baseUrl), init |-> RequestInit(cfg, options)]

-----------------------------------------------------------------------------
(* The remote API: the body of a 2xx response, per endpoint, shaped as the *)
(* response types of the source declare it.                                *)

Str(s) == [type |-> "string", s |-> s]
Num(n) == [type |-> "number", n |-> n]
Bool(b) == [type |-> "boolean", b |-> b]
\* an object whose key order matters (Object.entries)
OrderedObject(entries) == [type |-> "object", entries |-> entries]

LocationCodes == <<"ams", "arn", "bog", "bos">>
LocationDescriptions ==
    <<"Amsterdam, Netherlands", "Stockholm, Sweden", "Bogota, Colombia", "Boston, Massachusetts (US)">>

ApiToken(i) == Object([id |-> Num(i), name |-> Str("ci")])
Organization(i) ==
    Object([name |-> Str("acme"), slug |-> Num(i), type |-> Str("team"),
            overages |-> Bool(FALSE), blocked_reads |-> Bool(FALSE), blocked_writes |-> Bool(FALSE)])
OrganizationMember(i) ==
    Object([role |-> Str("owner"), username |-> Num(i), email |-> Str("a@turso.example")])
Group(i) ==
    Object([name |-> Num(i), primary |-> Str("ams"), locations |-> Array(<<Str("ams")>>)])

\* what list and get receive: capitalized Name, DbId, Hostname; an odd entry also
\* carries the optional fields, an even one a lowercase `name` that is not its Name
ApiDatabaseResponse(i) ==
    Object((IF i % 2 = 1
            THEN [group |-> Str("default"), regions |-> Array(<<Str("ams")>>),
                  primaryRegion |-> Str("ams")]
            ELSE [name |-> Str("stale")])
           @@ [Name |-> Str("mydb"), DbId |-> Num(i), Hostname |-> Str("mydb-acme.turso.io"),
               type |-> Str("logical"), version |-> Str("0.22.22")])

Database(i) ==
    Object([name |-> Str("mydb"), id |-> Num(i), hostname |-> Str("mydb-acme.turso.io"),
            type |-> Str("logical"), version |-> Str("0.22.22")])

DatabaseInstanceUsageDetail ==
    Object([rows_read |-> Num(0), rows_written |-> Num(0), storage_bytes |-> Num(0)])
DatabaseUsage ==
    Object([uuid |-> Str("0eb771dd"), instances |-> Array(<<>>), usage |-> DatabaseInstanceUsageDetail])

LocationEntry(i) == <<LocationCodes[i], LocationDescriptions[i]>>

\* the fields of the envelope, when the server sends them
Envelope(method, srv) ==
    CASE method = "apiTokens.list" -> [tokens |-> Array([i \in 1..srv.n |-> ApiToken(i)])]
      [] method = "apiTokens.create" -> [id |-> Num(1), name |-> Str("ci"), token |-> Str("secret")]
      [] method = "apiTokens.revoke" -> [token |-> Str("ci")]
      [] method = "apiTokens.validate" -> [exp |-> Num(srv.exp)]
      [] method = "organizations.list" -> [organizations |-> Array([i \in 1..srv.n |-> Organization(i)])]
      [] method = "organizations.members" -> [members |-> Array([i \in 1..srv.n |-> OrganizationMember(i)])]
      [] method = "locations.list" -> [locations |-> OrderedObject([i \in 1..srv.n |-> LocationEntry(i)])]
      [] method = "groups.list" -> [groups |-> Array([i \in 1..srv.n |-> Group(i)])]
      [] method \in {"groups.get", "groups.create", "groups.delete",
                     "groups.addLocation", "groups.removeLocation"} -> [group |-> Group(1)]
      [] method = "databases.list" -> [databases |-> Array([i \in 1..srv.n |-> ApiDatabaseResponse(i)])]
      [] method = "databases.get" -> [database |-> ApiDatabaseResponse(srv.n)]
      [] method = "databases.create" -> [database |-> Database(1)]
      [] method = "databases.delete" -> [database |-> Str("mydb")]
      [] method = "databases.createToken" -> [jwt |-> Str("eyJ")]
      [] method = "databases.usage" ->
            [database |-> DatabaseUsage, instances |-> Object(EmptyObject),
             total |-> DatabaseInstanceUsageDetail]
      [] OTHER -> EmptyObject

\* what response.json() resolves to
Body(method, srv) ==
    IF srv.body = "null" THEN Null
    ELSE Object(IF srv.field THEN Envelope(method, srv) ELSE EmptyObject)

Servers ==
    { [body |-> "null", field |-> FALSE, n |-> 0, exp |-> -1],
      [body |-> "object", field |-> FALSE, n |-> 0, exp |-> -1] }
    \cup [body : {"object"}, field : {TRUE}, n : 0..MaxEntries, exp : -1..(MaxTime + 1)]

-----------------------------------------------------------------------------
(* Reading the parsed body.                                                *)

\* v.k, for v an object
Get(v, k) == IF Has(v.fields, k) THEN v.fields[k] ELSE Undefined
\* reading a property of null or undefined throws a TypeError
Throws(v) == v.type \in {"null", "undefined"}
\* the left side of ??, and of ! on a value that is an object when present
Nullish(v) == v.type \in {"null", "undefined"}

Pending == [kind |-> "pending"]
Resolved(v) == [kind |-> "resolved", value |-> v]
Rejected(e) == [kind |-> "rejected", error |-> e]
TypeError == [name |-> "TypeError", message |-> <<>>]
SyntaxError == [name |-> "SyntaxError", message |-> <<>>]

-----------------------------------------------------------------------------
(* The part of each method after its await: from the parsed body to the    *)
(* settled promise.  currentTime is read by validate alone.                *)

\* return response.tokens ?? []
ApiTokenClient_list_return(response, currentTime) ==
    IF Throws(response) THEN Rejected(TypeError)
    ELSE Resolved(IF Nullish(Get(response, "tokens")) THEN Array(<<>>)
                  ELSE Get(response, "tokens"))

ApiTokenClient_create_return(response, currentTime) == Resolved(response)

ApiTokenClient_revoke_return(response, currentTime) == Resolved(response)

\* as validate, with >= for >
ApiTokenClient_validate_return_inclusive(response, currentTime) ==
    IF Throws(response) THEN Rejected(TypeError)
    ELSE LET exp == Get(response, "exp")
         IN  Resolved(Object([valid |-> Bool(IF exp.type = "number"
                                             THEN exp.n # -1 /\ exp.n >= currentTime
                                             ELSE FALSE),
                              expiry |-> exp]))

\* valid: response.exp !== -1 && response.exp > currentTime; an absent exp is
\* undefined, which is not -1 and compares false with every number
ApiTokenClient_validate_return(response, currentTime) ==
    IF Throws(response) THEN Rejected(TypeError)
    ELSE LET exp == Get(response, "exp")
         IN  Resolved(Object([valid |-> Bool(IF exp.type = "number"
                                             THEN exp.n # -1 /\ exp.n > currentTime
                                             ELSE FALSE),
                              expiry |-> exp]))

OrganizationClient_list_return(response, currentTime) ==
    IF Throws(response) THEN Rejected(TypeError)
    ELSE Resolved(IF Nullish(Get(response, "organizations")) THEN Array(<<>>)
                  ELSE Get(response, "organizations"))

OrganizationClient_members_return(response, currentTime) ==
    IF Throws(response) THEN Rejected(TypeError)
    ELSE Resolved(IF Nullish(Get(response, "members")) THEN Array(<<>>)
                  ELSE Get(response, "members"))

\* ([code, description]) => ({ code, description })
LocationOf(entry) == Object([code |-> Str(entry[1]), description |-> Str(entry[2])])

\* if (!response.locations) return []; Object.entries(response.locations).map(...)
LocationClient_list_return(response, currentTime) ==
    IF Throws(response) THEN Rejected(TypeError)
    ELSE Resolved(IF Nullish(Get(response, "locations")) THEN Array(<<>>)
                  ELSE LET locations == Get(response, "locations").entries
                       IN  Array([i \in 1..Len(locations) |-> LocationOf(locations[i])]))

GroupClient_list_return(response, currentTime) ==
    IF Throws(response) THEN Rejected(TypeError)
    ELSE Resolved(IF Nullish(Get(response, "groups")) THEN Array(<<>>)
                  ELSE Get(response, "groups"))

\* as get, with a guard that throws on an absent group
GroupClient_get_return_guarded(response, currentTime) ==
    IF Throws(response) \/ Nullish(Get(response, "group")) THEN Rejected(TypeError)
    ELSE Resolved(Get(response, "group"))

\* return response.group
GroupClient_get_return(response, currentTime) ==
    IF Throws(response) THEN Rejected(TypeError)
    ELSE Resolved(Get(response, "group"))

GroupClient_create_return(response, currentTime) ==
    IF Throws(response) THEN Rejected(TypeError)
    ELSE Resolved(Get(response, "group"))

GroupClient_delete_return(response, currentTime) ==
    IF Throws(response) THEN Rejected(TypeError)
    ELSE Resolved(Get(response, "group"))

GroupClient_addLocation_return(response, currentTime) ==
    IF Throws(response) THEN Rejected(TypeError)
    ELSE Resolved(Get(response, "group"))

GroupClient_removeLocation_return(response, currentTime) ==
    IF Throws(response) THEN Rejected(TypeError)
    ELSE Resolved(Get(response, "group"))

\* as formatResponse, reading the lowercase name off db
formatResponse_lowercase(db) ==
    Object([name |-> Get(db, "name"),
            id |-> Get(db, "DbId"),
            hostname |-> Get(db, "Hostname"),
            regions |-> Get(db, "regions"),
            primaryRegion |-> Get(db, "primaryRegion"),
            type |-> Get(db, "type"),
            version |-> Get(db, "version"),
            group |-> Get(db, "group")])

\* the object literal of formatResponse: eight keys, each read off db
formatResponse(db) ==
    Object([name |-> Get(db, "Name"),
            id |-> Get(db, "DbId"),
            hostname |-> Get(db, "Hostname"),
            regions |-> Get(db, "regions"),
            primaryRegion |-> Get(db, "primaryRegion"),
            type |-> Get(db, "type"),
            version |-> Get(db, "version"),
            group |-> Get(db, "group")])

\* as list, without the ?? []
DatabaseClient_list_return_unguarded(response, currentTime) ==
    IF Throws(response) \/ Throws(Get(response, "databases")) THEN Rejected(TypeError)
    ELSE LET databases == Get(response, "databases").items
         IN  IF \E i \in 1..Len(databases) : Throws(databases[i])
             THEN Rejected(TypeError)
             ELSE Resolved(Array([i \in 1..Len(databases) |-> formatResponse(databases[i])]))

\* (response.databases ?? []).map((db) => this.formatResponse(db))
DatabaseClient_list_return(response, currentTime) ==
    IF Throws(response) THEN Rejected(TypeError)
    ELSE LET databases == IF Nullish(Get(response, "databases")) THEN <<>>
                          ELSE Get(response, "databases").items
         IN  IF \E i \in 1..Len(databases) : Throws(databases[i])
             THEN Rejected(TypeError)
             ELSE Resolved(Array([i \in 1..Len(databases) |-> formatResponse(databases[i])]))

\* return this.formatResponse(response.database)
DatabaseClient_get_return(response, currentTime) ==
    IF Throws(response) THEN Rejected(TypeError)
    ELSE IF Throws(Get(response, "database")) THEN Rejected(TypeError)
    ELSE Resolved(formatResponse(Get(response, "database")))

DatabaseClient_create_return(response, currentTime) ==
    IF Throws(response) THEN Rejected(TypeError)
    ELSE Resolved(Get(response, "database"))

DatabaseClient_update_return(response, currentTime) == Resolved(response)

DatabaseClient_delete_return(response, currentTime) == Resolved(response)

DatabaseClient_createToken_return(response, currentTime) == Resolved(response)

DatabaseClient_rotateTokens_return(response, currentTime) == Resolved(response)

DatabaseClient_usage_return(response, currentTime) ==
    IF Throws(response) THEN Rejected(TypeError)
    ELSE Resolved(Get(response, "database"))

Return(method, response, currentTime) ==
    CASE method = "apiTokens.list" -> ApiTokenClient_list_return(response, currentTime)
      [] method = "apiTokens.create" -> ApiTokenClient_create_return(response, currentTime)
      [] method = "apiTokens.revoke" -> ApiTokenClient_revoke_return(response, currentTime)
      [] method = "apiTokens.validate" -> ApiTokenClient_validate_return(response, currentTime)
      [] method = "organizations.list" -> OrganizationClient_list_return(response, currentTime)
      [] method = "organizations.members" -> OrganizationClient_members_return(response, currentTime)
      [] method = "locations.list" -> LocationClient_list_return(response, currentTime)
      [] method = "groups.list" -> GroupClient_list_return(response, currentTime)
      [] method = "groups.get" -> GroupClient_get_return(response, currentTime)
      [] method = "groups.create" -> GroupClient_create_return(response, currentTime)
      [] method = "groups.delete" -> GroupClient_delete_return(response, currentTime)
      [] method = "groups.addLocation" -> GroupClient_addLocation_return(response, currentTime)
      [] method = "groups.removeLocation" -> GroupClient_removeLocation_return(response, currentTime)
      [] method = "databases.list" -> DatabaseClient_list_return(response, currentTime)
      [] method = "databases.get" -> DatabaseClient_get_return(response, currentTime)
      [] method = "databases.create" -> DatabaseClient_create_return(response, currentTime)
      [] method = "databases.update" -> DatabaseClient_update_return(response, currentTime)
      [] method = "databases.delete" -> DatabaseClient_delete_return(response, currentTime)
      [] method = "databases.createToken" -> DatabaseClient_createToken_return(response, currentTime)
      [] method = "databases.rotateTokens" -> DatabaseClient_rotateTokens_return(response, currentTime)
      [] method = "databases.usage" -> DatabaseClient_usage_return(response, currentTime)

-----------------------------------------------------------------------------
(* The transport: fetch and the Response it resolves to.                   *)

Statuses == {200, 404, 500}
\* Response.ok
ok(status) == status >= 200 /\ status <= 299

NetworkError == [name |-> "TypeError", message |-> <<"Failed to fetch">>]
\* new Error(`Something went wrong! Status ${response.status}`)
Error(status) == [name |-> "Error", message |-> <<"Something went wrong! Status ", status>>]

-----------------------------------------------------------------------------
(* Invocations.  pc is where the async frame stands: "idle" (not yet       *)
(* called), "fetch" (awaiting fetch), "json" (awaiting response.json()),   *)
(* "resolved" or "rejected" (the promise the caller holds has settled).    *)

Idle ==
    [pc |-> "idle", method |-> "", args |-> EmptyObject,
     url |-> Path(<<>>),        \* the relative reference the method built
     request |-> EmptyObject,   \* the arguments of fetch
     fetches |-> 0,             \* calls of fetch made for this invocation
     transport |-> "none",      \* how fetch settled: "response" or "failed"
     status |-> 0,              \* response.status
     parsed |-> FALSE,          \* response.json() was called
     currentTime |-> 0,         \* Math.floor(Date.now() / 1000), when read
     outcome |-> Pending]

Replace(c, d) == (calls (-) SetToBag({c})) (+) SetToBag({d})

\* a public method runs up to the await of fetch inside TursoClient.request
Invoke(method, a, r) ==
    \E c \in BagToSet(calls) :
        /\ c.pc = "idle"
        /\ calls' = Replace(c, [c EXCEPT !.pc = "fetch",
                                         !.method = method,
                                         !.args = a,
                                         !.url = r.url,
                                         !.request = TursoClient_request(
                                             r.url, TursoClient_constructor(config), r.options),
                                         !.fetches = c.fetches + 1])
        /\ UNCHANGED <<config, server>>

NoArgs == {EmptyObject}
NameArgs == {[name |-> n] : n \in Names}
DbNameArgs == {[dbName |-> n] : n \in Names}
ValidateArgs == {[token |-> t] : t \in Tokens}
GroupCreateArgs == {[data |-> [name |-> n, location |-> <<"ams">>]] : n \in Names}
LocationArgs == {[groupName |-> n, location |-> "ams"] : n \in Names}
DatabaseCreateArgs ==
    {o @@ [name |-> n] :
        n \in Names,
        o \in {EmptyObject, "options" :> [image |-> "latest", group |-> "default"]}}
CreateTokenArgs ==
    {o @@ [dbName |-> n] :
        n \in Names,
        o \in {EmptyObject} \cup
              {"options" :> (e @@ z) :
                  e \in {EmptyObject, "expiration" :> "2w"},
                  z \in {EmptyObject, "authorization" :> "read-only"}}}
UsageArgs ==
    {o @@ [dbName |-> n] :
        n \in Names,
        o \in {EmptyObject,
               "options" :> [from |-> Date(1)],
               "options" :> [from |-> Str("1970-01-01"), to |-> Date(2)]}}

ApiTokenClient_list ==
    \E a \in NoArgs : Invoke("apiTokens.list", a, ApiTokenClient_list_request(TursoClient_constructor(config), a))
ApiTokenClient_create ==
    \E a \in NameArgs : Invoke("apiTokens.create", a, ApiTokenClient_create_request(TursoClient_constructor(config), a))
ApiTokenClient_revoke ==
    \E a \in NameArgs : Invoke("apiTokens.revoke", a, ApiTokenClient_revoke_request(TursoClient_constructor(config), a))
ApiTokenClient_validate ==
    \E a \in ValidateArgs : Invoke("apiTokens.validate", a, ApiTokenClient_validate_request(TursoClient_constructor(config), a))
OrganizationClient_list ==
    \E a \in NoArgs : Invoke("organizations.list", a, OrganizationClient_list_request(TursoClient_constructor(config), a))
OrganizationClient_members ==
    \E a \in NoArgs : Invoke("organizations.members", a, OrganizationClient_members_request(TursoClient_constructor(config), a))
LocationClient_list ==
    \E a \in NoArgs : Invoke("locations.list", a, LocationClient_list_request(TursoClient_constructor(config), a))
GroupClient_list ==
    \E a \in NoArgs : Invoke("groups.list", a, GroupClient_list_request(TursoClient_constructor(config), a))
GroupClient_get ==
    \E a \in NameArgs : Invoke("groups.get", a, GroupClient_get_request(TursoClient_constructor(config), a))
GroupClient_create ==
    \E a \in GroupCreateArgs : Invoke("groups.create", a, GroupClient_create_request(TursoClient_constructor(config), a))
GroupClient_delete ==
    \E a \in NameArgs : Invoke("groups.delete", a, GroupClient_delete_request(TursoClient_constructor(config), a))
GroupClient_addLocation ==
    \E a \in LocationArgs : Invoke("groups.addLocation", a, GroupClient_addLocation_request(TursoClient_constructor(config), a))
GroupClient_removeLocation ==
    \E a \in LocationArgs : Invoke("groups.removeLocation", a, GroupClient_removeLocation_request(TursoClient_constructor(config), a))
DatabaseClient_list ==
    \E a \in NoArgs : Invoke("databases.list", a, DatabaseClient_list_request(TursoClient_constructor(config), a))
DatabaseClient_get ==
    \E a \in NameArgs : Invoke("databases.get", a, DatabaseClient_get_request(TursoClient_constructor(config), a))
DatabaseClient_create ==
    \E a \in DatabaseCreateArgs : Invoke("databases.create", a, DatabaseClient_create_request(TursoClient_constructor(config), a))
DatabaseClient_update ==
    \E a \in NameArgs : Invoke("databases.update", a, DatabaseClient_update_request(TursoClient_constructor(config), a))
DatabaseClient_delete ==
    \E a \in NameArgs : Invoke("databases.delete", a, DatabaseClient_delete_request(TursoClient_constructor(config), a))
DatabaseClient_createToken ==
    \E a \in CreateTokenArgs : Invoke("databases.createToken", a, DatabaseClient_createToken_request(TursoClient_constructor(config), a))
DatabaseClient_rotateTokens ==
    \E a \in DbNameArgs : Invoke("databases.rotateTokens", a, DatabaseClient_rotateTokens_request(TursoClient_constructor(config), a))
DatabaseClient_usage ==
    \E a \in UsageArgs : Invoke("databases.usage", a, DatabaseClient_usage_request(TursoClient_constructor(config), a))

\* as the step after fetch, throwing on a 5xx status only
TursoClient_request_response_serverErrors(c, status) ==
    IF status >= 500
    THEN [c EXCEPT !.pc = "rejected", !.transport = "response", !.status = status,
                   !.outcome = Rejected(Error(status))]
    ELSE [c EXCEPT !.pc = "json", !.transport = "response", !.status = status,
                   !.parsed = TRUE]

\* as the step after fetch, calling fetch again on a 5xx status
TursoClient_request_response_retry(c, status) ==
    IF status >= 500
    THEN [c EXCEPT !.pc = "fetch", !.fetches = c.fetches + 1]
    ELSE IF ~ok(status)
    THEN [c EXCEPT !.pc = "rejected", !.transport = "response", !.status = status,
                   !.outcome = Rejected(Error(status))]
    ELSE [c EXCEPT !.pc = "json", !.transport = "response", !.status = status,
                   !.parsed = TRUE]

\* TursoClient.request after `await fetch(...)`: throw unless response.ok, else
\* call response.json() and await it
TursoClient_request_response(c, status) ==
    IF ~ok(status)
    THEN [c EXCEPT !.pc = "rejected", !.transport = "response", !.status = status,
                   !.outcome = Rejected(Error(status))]
    ELSE [c EXCEPT !.pc = "json", !.transport = "response", !.status = status,
                   !.parsed = TRUE]

\* the method after `await TursoClient.request(...)`
MethodReturns(c, response, currentTime) ==
    LET outcome == Return(c.method, response, currentTime)
    IN  [c EXCEPT !.pc = outcome.kind,
                  !.currentTime = IF c.method = "apiTokens.validate" THEN currentTime ELSE 0,
                  !.outcome = outcome]

\* fetch resolves with a Response
FetchResolves ==
    \E c \in BagToSet(calls), status \in Statuses :
        /\ c.pc = "fetch"
        /\ calls' = Replace(c, TursoClient_request_response(c, status))
        /\ UNCHANGED <<config, server>>

\* fetch rejects (no response at all); the rejection passes through every await
FetchRejects ==
    \E c \in BagToSet(calls) :
        /\ c.pc = "fetch"
        /\ calls' = Replace(c, [c EXCEPT !.pc = "rejected", !.transport = "failed",
                                         !.outcome = Rejected(NetworkError)])
        /\ UNCHANGED <<config, server>>

\* response.json() resolves and the method finishes
JsonResolves ==
    \E c \in BagToSet(calls), currentTime \in 0..MaxTime :
        /\ c.pc = "json"
        /\ calls' = Replace(c, MethodReturns(c, Body(c.method, server), currentTime))
        /\ UNCHANGED <<config, server>>

\* response.json() rejects: the body is not JSON
JsonRejects ==
    \E c \in BagToSet(calls) :
        /\ c.pc = "json"
        /\ calls' = Replace(c, [c EXCEPT !.pc = "rejected", !.outcome = Rejected(SyntaxError)])
        /\ UNCHANGED <<config, server>>

-----------------------------------------------------------------------------
(* Specifications.                                                         *)

\* one invocation, any configuration, any server
Init ==
    /\ config \in TursoConfig
    /\ server \in Servers
    /\ calls = SetToBag({Idle})

\* NumConcurrent invocations in flight together, under the configuration
\* { token: "t", org: "acme" }
InitConcurrent ==
    /\ config = [token |-> "t", org |-> "acme"]
    /\ server = [body |-> "object", field |-> TRUE, n |-> 1, exp |-> 1]
    /\ calls = [c \in {Idle} |-> NumConcurrent]

Next ==
    \/ ApiTokenClient_list
    \/ ApiTokenClient_create
    \/ ApiTokenClient_revoke
    \/ ApiTokenClient_validate
    \/ OrganizationClient_list
    \/ OrganizationClient_members
    \/ LocationClient_list
    \/ GroupClient_list
    \/ GroupClient_get
    \/ GroupClient_create
    \/ GroupClient_delete
    \/ GroupClient_addLocation
    \/ GroupClient_removeLocation
    \/ DatabaseClient_list
    \/ DatabaseClient_get
    \/ DatabaseClient_create
    \/ DatabaseClient_update
    \/ DatabaseClient_delete
    \/ DatabaseClient_createToken
    \/ DatabaseClient_rotateTokens
    \/ DatabaseClient_usage
    \/ FetchResolves
    \/ FetchRejects
    \/ JsonResolves
    \/ JsonRejects

Spec == Init /\ [][Next]_vars

SpecConcurrent == InitConcurrent /\ [][Next]_vars

-----------------------------------------------------------------------------
(* Properties.                                                             *)

Calls == BagToSet(calls)
Called(c) == c.pc # "idle"
Settled(c) == c.pc \in {"resolved", "rejected"}
\* the method got a parsed body: fetch resolved with a 2xx status and
\* response.json() did not reject
GotBody(c) ==
    /\ Settled(c)
    /\ c.parsed
    /\ (c.pc = "rejected" => c.outcome.error.name # "SyntaxError")
\* the body is a JSON object with, or without, the fields of the envelope
ObjectBody == server.body = "object"
FieldPresent == server.body = "object" /\ server.field
FieldAbsent == server.body = "object" /\ ~server.field

\* C1: a response whose status is outside 200..299 rejects the call, whatever the
\* method, with an error whose message carries that status; response.json() is
\* never called and no value is returned.
C1_NonOkStatusRejects ==
    \A c \in Calls :
        (c.transport = "response" /\ c.status \notin 200..299) =>
            /\ c.pc = "rejected"
            /\ c.outcome.kind = "rejected"
            /\ c.outcome.error.name = "Error"
            /\ c.outcome.error.message[2] = c.status
            /\ ~c.parsed

C1_Witness ==
    \E c \in Calls :
        /\ c.method = "databases.get"
        /\ c.transport = "response"
        /\ c.status = 404
        /\ c.pc = "rejected"

\* C2: apiTokens.validate(token) sends `Bearer <token>`, the token it is given,
\* as the Authorization header of its request.
C2_ValidateSendsGivenToken ==
    \A c \in Calls :
        (Called(c) /\ c.method = "apiTokens.validate") =>
            c.request.init.headers.Authorization = <<"Bearer ", c.args.token>>

\* C3: with no baseUrl configured, every request targets the API root
\* https://api.turso.tech/v1 followed by the relative path of the method.
C3_DefaultRootKept ==
    \A c \in Calls :
        (Called(c) /\ ~Has(config, "baseUrl")) =>
            /\ c.request.url.origin = "https://api.turso.tech"
            /\ c.request.url.path = <<"v1">> \o c.url.path

\* C4: validate returns valid = false whenever the server's exp is -1 and whenever
\* exp <= currentTime, valid = true only when exp > currentTime and exp # -1, and
\* an expiry equal to the server's exp.
C4_ValidateResult ==
    \A c \in Calls :
        (c.method = "apiTokens.validate" /\ GotBody(c) /\ FieldPresent) =>
            /\ c.pc = "resolved"
            /\ LET result == c.outcome.value.fields
               IN  /\ (server.exp = -1 => ~result.valid.b)
                   /\ (server.exp <= c.currentTime => ~result.valid.b)
                   /\ (result.valid.b => server.exp > c.currentTime /\ server.exp # -1)
                   /\ result.expiry.type = "number"
                   /\ result.expiry.n = server.exp

C4_Witness ==
    \E c \in Calls :
        /\ c.method = "apiTokens.validate"
        /\ c.pc = "resolved"
        /\ FieldPresent
        /\ server.exp = c.currentTime + 1
        /\ c.outcome.value.fields.valid.b

ListMethods ==
    {"apiTokens.list", "organizations.list", "organizations.members",
     "locations.list", "groups.list", "databases.list"}

\* C5: a list-style method that gets a 2xx body without its envelope field
\* resolves with an empty list, and with the field present resolves with one
\* element per entry of the field.
C5_ListOfEnvelope ==
    \A c \in Calls :
        (c.method \in ListMethods /\ GotBody(c) /\ ObjectBody) =>
            /\ c.pc = "resolved"
            /\ c.outcome.value.type = "array"
            /\ Len(c.outcome.value.items) = (IF server.field THEN server.n ELSE 0)

C5_Witness ==
    \E c \in Calls, d \in ListMethods :
        /\ c.method = d
        /\ c.pc = "resolved"
        /\ FieldAbsent
        /\ c.outcome.value = Array(<<>>)

GroupAndDatabaseMethods ==
    {"groups.list", "groups.get", "groups.create", "groups.delete",
     "groups.addLocation", "groups.removeLocation",
     "databases.list", "databases.get", "databases.create", "databases.update",
     "databases.delete", "databases.createToken", "databases.rotateTokens",
     "databases.usage"}

\* the relative path a method of GroupClient or DatabaseClient builds
PathOf(method, cfg, a) ==
    CASE method = "groups.list" -> GroupClient_list_request(cfg, a).url.path
      [] method = "groups.get" -> GroupClient_get_request(cfg, a).url.path
      [] method = "groups.create" -> GroupClient_create_request(cfg, a).url.path
      [] method = "groups.delete" -> GroupClient_delete_request(cfg, a).url.path
      [] method = "groups.addLocation" -> GroupClient_addLocation_request(cfg, a).url.path
      [] method = "groups.removeLocation" -> GroupClient_removeLocation_request(cfg, a).url.path
      [] method = "databases.list" -> DatabaseClient_list_request(cfg, a).url.path
      [] method = "databases.get" -> DatabaseClient_get_request(cfg, a).url.path
      [] method = "databases.create" -> DatabaseClient_create_request(cfg, a).url.path
      [] method = "databases.update" -> DatabaseClient_update_request(cfg, a).url.path
      [] method = "databases.delete" -> DatabaseClient_delete_request(cfg, a).url.path
      [] method = "databases.createToken" -> DatabaseClient_createToken_request(cfg, a).url.path
      [] method = "databases.rotateTokens" -> DatabaseClient_rotateTokens_request(cfg, a).url.path
      [] method = "databases.usage" -> DatabaseClient_usage_request(cfg, a).url.path

WithoutOrg(cfg) == [k \in DOMAIN cfg \ {"org"} |-> cfg[k]]

\* C6: every method of GroupClient and DatabaseClient targets, when org is set,
\* organizations/{org}/ followed by the path the same method targets when no org
\* is set, and an unprefixed path when no org is set.
C6_OrgPathIsPrefixedLegacyPath ==
    \A c \in Calls :
        (Called(c) /\ c.method \in GroupAndDatabaseMethods) =>
            IF Has(config, "org")
            THEN c.url.path = <<"organizations", config.org>>
                              \o PathOf(c.method, WithoutOrg(config), c.args)
            ELSE c.url.path[1] # "organizations"

\* result is the canonical record of the raw entry: name, id and hostname are the
\* raw Name, DbId and Hostname, the other five fields are copied (undefined when
\* the raw entry has none), and no capitalized key is left
Canonical(result, raw) ==
    /\ result.type = "object"
    /\ DOMAIN result.fields =
          {"name", "id", "hostname", "regions", "primaryRegion", "type", "version", "group"}
    /\ result.fields.name = raw.fields.Name
    /\ result.fields.id = raw.fields.DbId
    /\ result.fields.hostname = raw.fields.Hostname
    /\ \A k \in {"regions", "primaryRegion", "type", "version", "group"} :
          IF Has(raw.fields, k)
          THEN result.fields[k] = raw.fields[k]
          ELSE result.fields[k].type = "undefined"

\* C7: databases.list and databases.get return, for every raw entry, the record
\* keyed by the lowercase canonical fields.
C7_CanonicalDatabases ==
    \A c \in Calls :
        /\ (c.method = "databases.get" /\ GotBody(c) /\ FieldPresent) =>
              /\ c.pc = "resolved"
              /\ Canonical(c.outcome.value, ApiDatabaseResponse(server.n))
        /\ (c.method = "databases.list" /\ GotBody(c) /\ FieldPresent) =>
              /\ c.pc = "resolved"
              /\ Len(c.outcome.value.items) = server.n
              /\ \A i \in 1..server.n :
                    Canonical(c.outcome.value.items[i], ApiDatabaseResponse(i))

C7_Witness ==
    \E c \in Calls :
        /\ c.method = "databases.list"
        /\ c.pc = "resolved"
        /\ FieldPresent
        /\ server.n >= 2
        /\ Len(c.outcome.value.items) = server.n

Provided(a, k) == Has(a, "options") /\ Has(a.options, k)

\* C8: createToken POSTs to .../databases/{dbName}/auth/tokens with a query that
\* has `expiration` exactly when options.expiration was provided and
\* `authorization` exactly when options.authorization was, each with its value.
C8_CreateTokenQuery ==
    \A c \in Calls :
        (Called(c) /\ c.method = "databases.createToken") =>
            LET target == c.request.url
                n == Len(target.path)
            IN  /\ c.request.init.method = "POST"
                /\ n >= 4
                /\ SubSeq(target.path, n - 3, n) = <<"databases", c.args.dbName, "auth", "tokens">>
                /\ ParamNames(target.params) \subseteq {"expiration", "authorization"}
                /\ \A k \in {"expiration", "authorization"} :
                      /\ k \in ParamNames(target.params) <=> Provided(c.args, k)
                      /\ Provided(c.args, k) => ParamValue(target.params, k) = c.args.options[k]

C8_Witness ==
    \E c \in Calls :
        /\ c.method = "databases.createToken"
        /\ Called(c)
        /\ Provided(c.args, "authorization")
        /\ ~Provided(c.args, "expiration")
        /\ c.request.url.params = <<<<"authorization", "read-only">>>>

\* C9: every invocation calls fetch exactly once, never a second time whatever
\* the status, and settles only after that call has produced its response or its
\* failure; this for every interleaving of the invocations in flight.
C9_OneCallPerInvocation ==
    \A c \in Calls :
        /\ c.fetches <= 1
        /\ (Called(c) <=> c.fetches = 1)
        /\ (Settled(c) => c.transport \in {"response", "failed"})
        /\ (c.transport = "none" <=> c.pc \in {"idle", "fetch"})

C9_Witness ==
    \E c \in Calls, d \in Calls :
        /\ c.pc = "resolved"
        /\ d.pc = "rejected"
        /\ d.status = 500
        /\ c.fetches = 1
        /\ d.fetches = 1

\* C10: groups.get fails when a 2xx body has no `group` field.
C10_GetFailsWithoutGroup ==
    \A c \in Calls :
        (c.method = "groups.get" /\ GotBody(c) /\ FieldAbsent) => c.pc = "rejected"

\* C10, amended: groups.get does not fail when a 2xx body is an object with no
\* `group` field; it resolves with undefined, where groups.list resolves with an
\* empty list.
C10_GetResolvesUndefined ==
    \A c \in Calls :
        /\ (c.method = "groups.get" /\ GotBody(c) /\ FieldAbsent) =>
              /\ c.pc = "resolved"
              /\ c.outcome.value.type = "undefined"
        /\ (c.method = "groups.list" /\ GotBody(c) /\ FieldAbsent) =>
              /\ c.pc = "resolved"
              /\ c.outcome.value = Array(<<>>)

C10_Witness ==
    \E c \in Calls :
        /\ c.method = "groups.get"
        /\ c.pc = "resolved"
        /\ FieldAbsent
        /\ c.status = 200
=============================================================================
